---- MODULE Spec2Model ----
(***************************************************************************)
(* Rock-Paper-Scissors(-Lizard-Spock): the outcome resolver, the three     *)
(* opponent strategies, the Match object with its drivers, and the         *)
(* statistics store of advanced_rps_game.py and rps_gui.py.                *)
(*                                                                         *)
(* Python values are modelled as follows.  A str is a TLA+ string.  None   *)
(* and an optional value are <<>> and <<v>>.  A dict (and a Counter, and   *)
(* a defaultdict) is the sequence of its <<key, value>> pairs in insertion *)
(* order, which is the order Python iterates it in.  random.choice(xs) is  *)
(* a nondeterministic choice among the elements of xs.                     *)
(***************************************************************************)
EXTENDS Integers, Sequences, FiniteSets, TLC

VARIABLES
    match,      \* the Match object: player_name, rules, rounds, scores, move_history
    ai,         \* the opponent strategy object the match refers to
    pc,         \* where the driver of the match (or of the program) stands
    ret,        \* the value the last call returned to the driver, <<>> before any
    result,     \* play_match_cli's local `result`, "" before it is computed
    observed,   \* the human moves passed to ai.observe since the last reset
    data,       \* StatsManager.data: the statistics store in memory
    file,       \* the content of rps_stats.json, <<>> while there is no file
    player_name,        \* main_menu's player_name
    played,     \* what play_match_cli holds of the match it has just run
    opponent_rating     \* play_match_cli's local opponent_rating

matchVars == <<match, ai, ret, observed>>

statsVars == <<data, file, player_name, played, opponent_rating>>

vars == <<match, ai, pc, ret, result, observed,
          data, file, player_name, played, opponent_rating>>

\* ------------------------------------------------------------------ bounds

\* The longest move_history a match is followed to.
MaxHistory == 2

\* The largest answer to "Best of how many rounds?" (and rounds argument).
MaxRounds == 3

\* The most observe calls a strategy object is followed through.
MaxObs == 4

\* The most rounds a match of the statistics program is followed through.
MaxPlayed == 3

\* The most matches in the histories of the store before no further match is
\* started.
MaxMatches == 2

\* The most update_rating calls a record is followed through.
MaxRated == 2

\* Ratings a loaded record or an opponent starts from: 1200 and up to
\* RatingSpread steps of RatingStep points below and above it.
RatingSpread == 4

RatingStep == 100

\* ------------------------------------------------------------- game rules

RULESETS ==
    [RPS |->
        [moves |-> <<"rock", "paper", "scissors">>,
         winner_map |-> [rock |-> {"scissors"},
                         paper |-> {"rock"},
                         scissors |-> {"paper"}]],
     RPSLS |->
        [moves |-> <<"rock", "paper", "scissors", "lizard", "spock">>,
         winner_map |-> [rock |-> {"scissors", "lizard"},
                         paper |-> {"rock", "spock"},
                         scissors |-> {"paper", "lizard"},
                         lizard |-> {"spock", "paper"},
                         spock |-> {"scissors", "rock"}]]]

RulesetKeys == DOMAIN RULESETS

Range(s) == {s[i] : i \in 1..Len(s)}

\* The moves of a rule set, as a set.
Moves(ruleset_key) == Range(RULESETS[ruleset_key].moves)

\* winner_map.get(move_a, set())
WinnerMapGet(winner_map, move_a) ==
    IF move_a \in DOMAIN winner_map THEN winner_map[move_a] ELSE {}

\* A resolver that tests the relation the wrong way round.
DecideWinnerSwapped(move_a, move_b, winner_map) ==
    IF move_a = move_b THEN 0
    ELSE IF move_a \in WinnerMapGet(winner_map, move_b) THEN 1
    ELSE -1

\* A resolver that never reports a loss of the first argument.
DecideWinnerNoLoss(move_a, move_b, winner_map) ==
    IF move_a = move_b THEN 0 ELSE 1

DecideWinner(move_a, move_b, winner_map) ==
    IF move_a = move_b THEN 0
    ELSE IF move_b \in WinnerMapGet(winner_map, move_a) THEN 1
    ELSE -1

\* ------------------------------------------------- dict and Counter values

DictKeys(d) == {d[i][1] : i \in 1..Len(d)}

DictIndex(d, k) == CHOOSE i \in 1..Len(d) : d[i][1] = k

\* Counter.__getitem__: a missing key counts 0 and is not inserted.
CounterGet(c, k) == IF k \in DictKeys(c) THEN c[DictIndex(c, k)][2] ELSE 0

\* d[k] = v: an existing key keeps its place, a new one goes last.
DictSet(d, k, v) ==
    IF k \in DictKeys(d)
    THEN [d EXCEPT ![DictIndex(d, k)] = <<k, v>>]
    ELSE Append(d, <<k, v>>)

\* c[k] += 1
CounterInc(c, k) == DictSet(c, k, CounterGet(c, k) + 1)

\* A most_common(1) that keeps the last maximal item it meets.
MostCommon1Last(c) ==
    c[CHOOSE i \in 1..Len(c) :
        /\ \A j \in 1..Len(c) : c[j][2] <= c[i][2]
        /\ \A j \in (i + 1)..Len(c) : c[j][2] < c[i][2]][1]

\* c.most_common(1)[0][0] of a non-empty Counter: heapq.nlargest(1, ...) is
\* max(items, key=count), which keeps the first maximal item it meets.
MostCommon1(c) ==
    c[CHOOSE i \in 1..Len(c) :
        /\ \A j \in 1..Len(c) : c[j][2] <= c[i][2]
        /\ \A j \in 1..(i - 1) : c[j][2] < c[i][2]][1]

\* defaultdict(Counter).__getitem__ inserts an empty Counter for a missing key.
DefaultDictTouch(d, k) == IF k \in DictKeys(d) THEN d ELSE Append(d, <<k, <<>> >>)

DefaultDictGet(d, k) == IF k \in DictKeys(d) THEN d[DictIndex(d, k)][2] ELSE <<>>

\* --------------------------------------------------------------- AI players

AiNames == {"RandomAI", "FrequencyAI", "MarkovAI"}

\* self.rules is kept as the key of the rule set.  RandomAI has none of the
\* adaptive fields; they are kept empty so that all strategies have one shape.
BaseAI(ruleset_keys, name) ==
    [name |-> name, rules |-> ruleset_keys,
     freq |-> <<>>, transition |-> <<>>, prev |-> <<>>, player_freq |-> <<>>]

RandomAI(ruleset_keys) == BaseAI(ruleset_keys, "RandomAI")

FrequencyAI(ruleset_keys) == BaseAI(ruleset_keys, "FrequencyAI")

MarkovAI(ruleset_keys) == BaseAI(ruleset_keys, "MarkovAI")

\* reset(): BaseAI.reset does nothing, the adaptive strategies clear their state.
AIReset(a) ==
    CASE a.name = "FrequencyAI" -> [a EXCEPT !.freq = <<>>]
      [] a.name = "MarkovAI" ->
            [a EXCEPT !.transition = <<>>, !.prev = <<>>, !.player_freq = <<>>]
      [] OTHER -> a

MarkovObserve(a, player_move) ==
    [a EXCEPT
        !.transition =
            IF a.prev # <<>>
            THEN DictSet(a.transition, a.prev[1],
                         CounterInc(DefaultDictGet(a.transition, a.prev[1]), player_move))
            ELSE a.transition,
        !.prev = <<player_move>>,
        !.player_freq = CounterInc(a.player_freq, player_move)]

\* observe(player_move, ai_move): no strategy reads ai_move.
AIObserve(a, player_move, ai_move) ==
    CASE a.name = "FrequencyAI" -> [a EXCEPT !.freq = CounterInc(a.freq, player_move)]
      [] a.name = "MarkovAI" -> MarkovObserve(a, player_move)
      [] OTHER -> a

\* Python's truth value of an optional str: None and "" are false.
Truthy(opt) == opt # <<>> /\ opt[1] # ""

\* A predict_next that ignores the transition table.
PredictNextFreqOnly(a) ==
    IF a.player_freq # <<>> THEN <<MostCommon1(a.player_freq)>> ELSE <<>>

\* MarkovAI.predict_next: <<m>> for a prediction m, <<>> for None.
PredictNext(a) ==
    IF Truthy(a.prev) /\ DefaultDictGet(a.transition, a.prev[1]) # <<>>
    THEN <<MostCommon1(DefaultDictGet(a.transition, a.prev[1]))>>
    ELSE IF a.player_freq # <<>> THEN <<MostCommon1(a.player_freq)>>
    ELSE <<>>

\* What predict_next leaves behind: reading self.transition[self.prev] inserts
\* an empty Counter for a previous move that has no entry yet.
PredictNextEffect(a) ==
    IF Truthy(a.prev)
    THEN [a EXCEPT !.transition = DefaultDictTouch(a.transition, a.prev[1])]
    ELSE a

\* Counters that are the moves the predicted move beats, not those beating it.
CountersBeaten(ruleset_key, predicted) ==
    WinnerMapGet(RULESETS[ruleset_key].winner_map, predicted)

\* [m for m, beats in winner_map.items() if predicted in beats]
Counters(ruleset_key, predicted) ==
    {m \in DOMAIN RULESETS[ruleset_key].winner_map :
        predicted \in RULESETS[ruleset_key].winner_map[m]}

\* A choose_move that answers the predicted move itself when nothing beats it.
ChooseMoveEcho(a) ==
    LET predicted ==
            CASE a.name = "FrequencyAI" ->
                    IF a.freq # <<>> THEN <<MostCommon1(a.freq)>> ELSE <<>>
              [] a.name = "MarkovAI" -> PredictNext(a)
              [] OTHER -> <<>>
    IN  IF predicted = <<>> THEN Moves(a.rules)
        ELSE IF Counters(a.rules, predicted[1]) # {}
             THEN Counters(a.rules, predicted[1])
             ELSE {predicted[1]}

\* choose_move(): the set of moves the call may return.
ChooseMove(a) ==
    CASE a.name = "FrequencyAI" ->
            IF a.freq = <<>> THEN Moves(a.rules)
            ELSE IF Counters(a.rules, MostCommon1(a.freq)) # {}
                 THEN Counters(a.rules, MostCommon1(a.freq))
                 ELSE Moves(a.rules)
      [] a.name = "MarkovAI" ->
            IF Truthy(PredictNext(a)) /\ Counters(a.rules, PredictNext(a)[1]) # {}
            THEN Counters(a.rules, PredictNext(a)[1])
            ELSE Moves(a.rules)
      [] OTHER -> Moves(a.rules)

\* The strategy object after a choose_move call.
AfterChooseMove(a) == IF a.name = "MarkovAI" THEN PredictNextEffect(a) ELSE a

\* choose_ai(ai_key, ruleset_keys), with play_match_cli's fallback to RandomAI
\* for the ValueError of an unknown key, and its default "markov" for no input.
ChooseAi(ai_choice, ruleset_key) ==
    LET ai_key == IF ai_choice = "" THEN "markov" ELSE ai_choice
    IN  CASE ai_key = "random" -> RandomAI(ruleset_key)
          [] ai_key = "freq" -> FrequencyAI(ruleset_key)
          [] ai_key = "markov" -> MarkovAI(ruleset_key)
          [] OTHER -> RandomAI(ruleset_key)

\* ------------------------------------------------------------ the Match

DEFAULT_PLAYER_NAME == "Player"

\* Match.__init__(player_name, ai, ruleset_keys, rounds); self.ai is the
\* variable ai, self.rules is kept as the key of the rule set.
Match(name, ruleset_keys, rounds) ==
    [player_name |-> name, rules |-> ruleset_keys, rounds |-> rounds,
     scores |-> [player |-> 0, ai |-> 0, ties |-> 0], move_history |-> <<>>]

\* A play_round that scores a tied round for the opponent.
PlayRoundTieToAi(m, a, player_move, ai_move) ==
    LET res == DecideWinner(player_move, ai_move, RULESETS[m.rules].winner_map)
    IN  [match |->
            [m EXCEPT
                !.scores = IF res = 1 THEN [@ EXCEPT !.player = @ + 1]
                           ELSE [@ EXCEPT !.ai = @ + 1],
                !.move_history = Append(@, <<player_move, ai_move>>)],
         ai |-> AIObserve(AfterChooseMove(a), player_move, ai_move),
         res |-> res, ai_move |-> ai_move]

\* Match.play_round(player_move) when self.ai.choose_move() returned ai_move:
\* the match and the strategy after the call, and the pair it returns.
PlayRound(m, a, player_move, ai_move) ==
    LET res == DecideWinner(player_move, ai_move, RULESETS[m.rules].winner_map)
    IN  [match |->
            [m EXCEPT
                !.scores = IF res = 1 THEN [@ EXCEPT !.player = @ + 1]
                           ELSE IF res = -1 THEN [@ EXCEPT !.ai = @ + 1]
                           ELSE [@ EXCEPT !.ties = @ + 1],
                !.move_history = Append(@, <<player_move, ai_move>>)],
         ai |-> AIObserve(AfterChooseMove(a), player_move, ai_move),
         res |-> res, ai_move |-> ai_move]

\* An is_over that needs one round-win more than the majority.
IsOverStrict(m) ==
    LET needed == (m.rounds \div 2) + 1
    IN  m.scores.player > needed \/ m.scores.ai > needed

\* Match.is_over()
IsOver(m) ==
    LET needed == (m.rounds \div 2) + 1
    IN  m.scores.player >= needed \/ m.scores.ai >= needed

\* play_match_cli: an even answer to "Best of how many rounds?" is made odd.
NormalizeRounds(rounds) == IF rounds % 2 = 0 THEN rounds + 1 ELSE rounds

\* play_match_cli's final result, from the scores of the match.
MatchResult(m) ==
    IF m.scores.player > m.scores.ai THEN "win"
    ELSE IF m.scores.player < m.scores.ai THEN "loss"
    ELSE "tie"

\* -------------------------------------------------- the drivers of a match

\* What can be typed at "Choose AI": a key, nothing, or something unknown.
AiChoices == {"random", "freq", "markov", "", "minimax"}

\* Strings a caller of the classes can pass as a human move: the moves of
\* the rule set, a move of the other rule set only, and the empty string.
CallerMoves(ruleset_key) == Moves(ruleset_key) \cup {"spock", ""}

\* The value a play_round returned, as its caller holds it.
Returned(r, player_move) ==
    <<[res |-> r.res, ai_move |-> r.ai_move, player_move |-> player_move]>>

\* play_match_cli up to its round loop (lines 283-300): the human picked a
\* rule set in main_menu, an opponent and a number of rounds.
InitCli ==
    \E ruleset_key \in RulesetKeys, ai_choice \in AiChoices, rounds \in 1..MaxRounds :
        /\ ai = AIReset(ChooseAi(ai_choice, ruleset_key))
        /\ match = Match(DEFAULT_PLAYER_NAME, ruleset_key, NormalizeRounds(rounds))
        /\ pc = "cli_loop"

\* rps_gui.py up to root.mainloop(): MarkovAI, RPS, best of 3.
InitGui ==
    /\ ai = AIReset(MarkovAI("RPS"))
    /\ match = Match("Player", "RPS", 3)
    /\ pc = "gui_mainloop"

\* Code that holds a Match it constructed itself and calls its methods.
InitCaller ==
    \E ruleset_key \in RulesetKeys, name \in AiNames, rounds \in 1..MaxRounds :
        /\ ai = BaseAI(ruleset_key, name)
        /\ match = Match(DEFAULT_PLAYER_NAME, ruleset_key, rounds)
        /\ pc = "caller"

\* The statistics store of a program that has not touched it.
InitNoStats ==
    /\ data = <<>>
    /\ file = <<>>
    /\ player_name = DEFAULT_PLAYER_NAME
    /\ played = <<>>
    /\ opponent_rating = 1200

InitMatch ==
    /\ InitCli \/ InitGui \/ InitCaller
    /\ ret = <<>>
    /\ result = ""
    /\ observed = <<>>
    /\ InitNoStats

\* A turn in which the strategy observes the human's move before it chooses.
CliRoundOfPeek(player_move, ai_move) ==
    /\ pc = "cli_loop"
    /\ ~IsOver(match)
    /\ Len(match.move_history) < MaxHistory
    /\ player_move \in Moves(match.rules)
    /\ ai_move \in ChooseMove(AIObserve(ai, player_move, player_move))
    /\ LET r == PlayRound(match, ai, player_move, ai_move)
       IN  /\ match' = r.match
           /\ ai' = r.ai
           /\ ret' = Returned(r, player_move)
           /\ observed' = Append(observed, player_move)
    /\ UNCHANGED <<pc, result, statsVars>>

\* One turn of play_match_cli's loop: is_over() is false, the human types a
\* move of the rule set (HumanPlayer.choose_move re-prompts on anything else),
\* play_round is called; player_move is what the human types, ai_move what
\* self.ai.choose_move() returns.
CliRoundOf(player_move, ai_move) ==
    /\ pc = "cli_loop"
    /\ ~IsOver(match)
    /\ Len(match.move_history) < MaxHistory
    /\ player_move \in Moves(match.rules)
    /\ ai_move \in ChooseMove(ai)
    /\ LET r == PlayRound(match, ai, player_move, ai_move)
       IN  /\ match' = r.match
           /\ ai' = r.ai
           /\ ret' = Returned(r, player_move)
           /\ observed' = Append(observed, player_move)
    /\ UNCHANGED <<pc, result, statsVars>>

CliRound ==
    \E player_move \in Moves(match.rules), ai_move \in Moves(match.rules) :
        CliRoundOf(player_move, ai_move)

\* The human types quit or exit: KeyboardInterrupt, "Match Aborted!", return.
CliAbort ==
    /\ pc = "cli_loop"
    /\ ~IsOver(match)
    /\ pc' = "cli_aborted"
    /\ UNCHANGED <<match, ai, ret, result, observed, statsVars>>

\* The loop ends because is_over() is true; the final result is computed.
CliFinish ==
    /\ pc = "cli_loop"
    /\ IsOver(match)
    /\ result' = MatchResult(match)
    /\ pc' = "cli_done"
    /\ UNCHANGED <<match, ai, ret, observed, statsVars>>

\* rps_gui.play_move(player_move), the callback of a move button: a round,
\* then root.quit() once the match is over, which ends the main loop.
GuiPlayMoveOf(player_move, ai_move) ==
    /\ pc = "gui_mainloop"
    /\ Len(match.move_history) < MaxHistory + 1
    /\ player_move \in Moves("RPS")
    /\ ai_move \in ChooseMove(ai)
    /\ LET r == PlayRound(match, ai, player_move, ai_move)
       IN  /\ match' = r.match
           /\ ai' = r.ai
           /\ ret' = Returned(r, player_move)
           /\ observed' = Append(observed, player_move)
           /\ pc' = IF IsOver(r.match) THEN "gui_quit" ELSE pc
    /\ UNCHANGED <<result, statsVars>>

GuiPlayMove ==
    \E player_move \in Moves("RPS"), ai_move \in Moves("RPS") :
        GuiPlayMoveOf(player_move, ai_move)

\* A direct call of Match.play_round: the method checks neither is_over() nor
\* the move it is given.
CallPlayRoundOf(player_move, ai_move) ==
    /\ pc = "caller"
    /\ Len(match.move_history) < MaxHistory
    /\ player_move \in CallerMoves(match.rules)
    /\ ai_move \in ChooseMove(ai)
    /\ LET r == PlayRound(match, ai, player_move, ai_move)
       IN  /\ match' = r.match
           /\ ai' = r.ai
           /\ ret' = Returned(r, player_move)
           /\ observed' = Append(observed, player_move)
    /\ UNCHANGED <<pc, result, statsVars>>

CallPlayRound ==
    \E player_move \in CallerMoves(match.rules), ai_move \in Moves(match.rules) :
        CallPlayRoundOf(player_move, ai_move)

NextMatch == CliRound \/ CliAbort \/ CliFinish \/ GuiPlayMove \/ CallPlayRound

SpecMatch == InitMatch /\ [][NextMatch]_vars

\* ------------------------------------------- a strategy object on its own

\* A strategy object as its constructor leaves it, in the hands of code that
\* calls reset, observe and choose_move in any order.
InitAI ==
    /\ \E ruleset_key \in RulesetKeys, name \in AiNames : ai = BaseAI(ruleset_key, name)
    /\ match = Match(DEFAULT_PLAYER_NAME, "RPS", 3)
    /\ pc = "ai_calls"
    /\ ret = <<>>
    /\ result = ""
    /\ observed = <<>>
    /\ InitNoStats

\* ai.reset()
CallReset ==
    /\ pc = "ai_calls"
    /\ ai' = AIReset(ai)
    /\ observed' = <<>>
    /\ ret' = <<[op |-> "reset", value |-> ""]>>
    /\ UNCHANGED <<match, pc, result, statsVars>>

\* ai.observe(player_move, ai_move)
CallObserve ==
    /\ pc = "ai_calls"
    /\ Len(observed) < MaxObs
    /\ \E player_move \in CallerMoves(ai.rules), ai_move \in Moves(ai.rules) :
        /\ ai' = AIObserve(ai, player_move, ai_move)
        /\ observed' = Append(observed, player_move)
    /\ ret' = <<[op |-> "observe", value |-> ""]>>
    /\ UNCHANGED <<match, pc, result, statsVars>>

\* ai.choose_move()
CallChooseMove ==
    /\ pc = "ai_calls"
    /\ \E ai_move \in ChooseMove(ai) :
        ret' = <<[op |-> "choose_move", value |-> ai_move]>>
    /\ ai' = AfterChooseMove(ai)
    /\ UNCHANGED <<match, pc, result, observed, statsVars>>

NextAI == CallReset \/ CallObserve \/ CallChooseMove

SpecAI == InitAI /\ [][NextAI]_vars

\* ------------------------------------------------------ the statistics store

ELO_K == 20

\* The record get_player creates for a name it does not know.
NewPlayer ==
    [wins |-> 0, losses |-> 0, ties |-> 0, rating |-> 1200, total_games |-> 0,
     history |-> <<>>, achievements |-> <<>>]

\* StatsManager.get_player(name): the store after the call.
GetPlayer(d, name) == IF name \in DictKeys(d) THEN d ELSE Append(d, <<name, NewPlayer>>)

\* d[name]
PlayerOf(d, name) == d[DictIndex(d, name)][2]

\* An update_match whose loss branch is missing.
UpdateMatchLossUncounted(d, name, opponent_name, res, moves) ==
    LET d1 == GetPlayer(d, name)
        p == PlayerOf(d1, name)
    IN  DictSet(d1, name,
            [p EXCEPT
                !.wins = IF res = "win" THEN @ + 1 ELSE @,
                !.ties = IF res = "tie" THEN @ + 1 ELSE @,
                !.total_games = @ + 1,
                !.history = Append(@, [opponent |-> opponent_name, result |-> res,
                                       moves |-> moves])])

\* StatsManager.update_match(player_name, opponent_name, result, moves): the
\* store after the call, before it is saved.
UpdateMatch(d, name, opponent_name, res, moves) ==
    LET d1 == GetPlayer(d, name)
        p == PlayerOf(d1, name)
    IN  DictSet(d1, name,
            [p EXCEPT
                !.wins = IF res = "win" THEN @ + 1 ELSE @,
                !.losses = IF res = "loss" THEN @ + 1 ELSE @,
                !.ties = IF res = "tie" THEN @ + 1 ELSE @,
                !.total_games = @ + 1,
                !.history = Append(@, [opponent |-> opponent_name, result |-> res,
                                       moves |-> moves])])

\* E = 1 / (1 + 10 ** (diff / 400)) falls as diff = opponent_rating - R grows.
\* EloSteps[k] is the largest integer diff at which ELO_K * E is still above
\* k - 1/2, that is floor(400 * log10(20 / (k - 1/2) - 1)).
EloSteps ==
    <<636, 436, 338, 269, 214, 168, 126, 88, 52, 17,
      -18, -53, -89, -127, -169, -215, -270, -339, -437, -637>>

\* An expected score of nothing, whatever the ratings.
ExpectedTimesKNone(diff) == 0

\* ELO_K * E rounded to the nearest integer (it is never half-way between two
\* integers but at diff = 0, where it is 10).
ExpectedTimesK(diff) == Cardinality({k \in 1..ELO_K : diff <= EloSteps[k]})

\* result_value, in tenths: 1.0, 0.0, 0.5.
ResultValue(res) == IF res = "win" THEN 10 ELSE IF res = "loss" THEN 0 ELSE 5

\* A rating that moves against the result.
NewRatingInverted(R, opp_rating, result_value) ==
    R - (ELO_K * result_value) \div 10 + ExpectedTimesK(opp_rating - R)

\* round(R + ELO_K * (result_value - E)) for an integer R.
NewRating(R, opp_rating, result_value) ==
    R + (ELO_K * result_value) \div 10 - ExpectedTimesK(opp_rating - R)

\* StatsManager.update_rating(player_name, opponent_rating, result_value): the
\* store after the call, before it is saved.
UpdateRating(d, name, opp_rating, result_value) ==
    LET d1 == GetPlayer(d, name)
        p == PlayerOf(d1, name)
    IN  DictSet(d1, name,
            [p EXCEPT !.rating = NewRating(p.rating, opp_rating, result_value)])

\* StatsManager.add_achievement(player_name, achievement): the store after
\* the call; Awards(d, name, achievement) tells whether it appended (and saved).
Awards(d, name, achievement) ==
    achievement \notin Range(PlayerOf(GetPlayer(d, name), name).achievements)

\* An add_achievement without its membership test.
AddAchievementAgain(d, name, achievement) ==
    LET d1 == GetPlayer(d, name)
        p == PlayerOf(d1, name)
    IN  DictSet(d1, name, [p EXCEPT !.achievements = Append(@, achievement)])

AddAchievement(d, name, achievement) ==
    LET d1 == GetPlayer(d, name)
        p == PlayerOf(d1, name)
    IN  IF achievement \notin Range(p.achievements)
        THEN DictSet(d1, name, [p EXCEPT !.achievements = Append(@, achievement)])
        ELSE d1

\* json.dump writes a tuple as an array, which json.load reads as a list: the
\* history of a saved record holds its rounds as lists.
RECURSIVE JsonHistory(_)
JsonHistory(h) ==
    IF h = <<>> THEN <<>>
    ELSE <<[Head(h) EXCEPT !.moves = [@ EXCEPT !.of = "list"]]>> \o JsonHistory(Tail(h))

RECURSIVE JsonData(_)
JsonData(d) ==
    IF d = <<>> THEN <<>>
    ELSE <<<<Head(d)[1], [Head(d)[2] EXCEPT !.history = JsonHistory(@)]>>>>
            \o JsonData(Tail(d))

\* save_json(path, obj): the file after the call.
SaveJson(d) == <<JsonData(d)>>

\* load_json(path, default={}) as StatsManager.__init__ calls it: no file
\* gives the empty store, a file gives what json.load reads from it.
LoadJson(f) == IF f = <<>> THEN <<>> ELSE f[1]

\* -------------------------------------------- update_rating on its own

Ratings == {1200 + RatingStep * k : k \in -RatingSpread..RatingSpread}

\* A StatsManager whose file held one record, with some rating, in the hands
\* of code that calls update_rating.
InitRating ==
    /\ player_name = DEFAULT_PLAYER_NAME
    /\ \E R \in Ratings :
            data = <<<<player_name, [NewPlayer EXCEPT !.rating = R]>>>>
    /\ file = SaveJson(data)
    /\ opponent_rating \in Ratings
    /\ pc = "rating_calls"
    /\ ret = <<>>
    /\ played = <<>>
    /\ result = ""
    /\ observed = <<>>
    /\ match = Match(DEFAULT_PLAYER_NAME, "RPS", 3)
    /\ ai = MarkovAI("RPS")

\* How many update_rating calls were made.
RatingCalls == IF ret = <<>> THEN 0 ELSE ret[1].calls

\* stats.update_rating(player_name, opponent_rating, result_value)
CallUpdateRating ==
    /\ pc = "rating_calls"
    /\ RatingCalls < MaxRated
    /\ \E opp \in Ratings, res \in {"win", "tie", "loss"} :
        /\ opponent_rating' = opp
        /\ data' = UpdateRating(data, player_name, opp, ResultValue(res))
        /\ ret' = <<[op |-> "update_rating",
                     R |-> PlayerOf(data, player_name).rating,
                     opponent_rating |-> opp,
                     result_value |-> ResultValue(res),
                     calls |-> RatingCalls + 1]>>
    /\ file' = SaveJson(data')
    /\ UNCHANGED <<match, ai, pc, result, observed, player_name, played>>

NextRating == CallUpdateRating

SpecRating == InitRating /\ [][NextRating]_vars

\* ------------------------------------------------------- the program (CLI)

\* Names typed at "Enter your name": nothing (the default) or the name an
\* opponent strategy is tracked under.
PlayerNames == {DEFAULT_PLAYER_NAME, "MarkovAI"}

\* What play_match_cli holds when its round loop is left with match m: the
\* opponent's name, whether the human quit, the result, the move history (of
\* which the statistics read the length only: how many rounds, held as
\* tuples) and whether the human played one move throughout.
Played(m, a, aborted) ==
    [opponent |-> a.name,
     aborted |-> aborted,
     result |-> IF aborted THEN "" ELSE MatchResult(m),
     moves |-> [len |-> Len(m.move_history), of |-> "tuple"],
     same_move |-> \A i \in 1..Len(m.move_history) :
                        m.move_history[i][1] = m.move_history[1][1]]

\* The ways play_match_cli's round loop can be left from match m with
\* strategy a: over, or quit at a prompt.
RECURSIVE CliRuns(_, _)
CliRuns(m, a) ==
    IF IsOver(m) THEN {Played(m, a, FALSE)}
    ELSE {Played(m, a, TRUE)} \cup
         (IF Len(m.move_history) < MaxPlayed
          THEN UNION {LET r == PlayRound(m, a, x[1], x[2])
                      IN  CliRuns(r.match, r.ai) :
                        x \in Moves(m.rules) \X ChooseMove(a)}
          ELSE {})

\* Every way a match of play_match_cli can go, over the rule sets, opponents
\* and numbers of rounds that can be chosen.
CliOutcomes ==
    UNION {CliRuns(Match(DEFAULT_PLAYER_NAME, x[1], x[3]), x[2]) :
            x \in {<<ruleset_key, AIReset(ChooseAi(ai_choice, ruleset_key)),
                     NormalizeRounds(rounds)>> :
                        ruleset_key \in RulesetKeys, ai_choice \in AiChoices,
                        rounds \in 1..MaxRounds}}

\* The achievement ids play_match_cli awards.
Achievements == {"First Win", "Three win streak", "Predictable Player (Cheater?)"}

\* main_menu after the name was entered; there is no statistics file yet.
Init ==
    /\ data = <<>>
    /\ file = <<>>
    /\ player_name \in PlayerNames
    /\ pc = "menu"
    /\ played = <<>>
    /\ result = ""
    /\ opponent_rating = 1200
    /\ match = Match(DEFAULT_PLAYER_NAME, "RPS", 3)
    /\ ai = MarkovAI("RPS")
    /\ ret = <<>>
    /\ observed = <<>>

HistoryLen(d, name) ==
    IF name \in DictKeys(d) THEN Len(PlayerOf(d, name).history) ELSE 0

\* The matches in the histories of all records of the store.
RECURSIVE TotalHistory(_)
TotalHistory(d) ==
    IF d = <<>> THEN 0 ELSE Len(Head(d)[2].history) + TotalHistory(Tail(d))

\* A play_match_cli that goes on to record a match the human quit.
MenuPlayMatchAbortRecorded ==
    /\ pc = "menu"
    /\ TotalHistory(data) < MaxMatches
    /\ \E o \in CliOutcomes :
        /\ played' = <<o>>
        /\ result' = o.result
        /\ pc' = "record"
    /\ UNCHANGED <<matchVars, data, file, player_name, opponent_rating>>

\* Menu 1: play_match_cli up to the end of its round loop.  A match the human
\* quits returns to the menu at once.
MenuPlayMatch ==
    /\ pc = "menu"
    /\ TotalHistory(data) < MaxMatches
    /\ \E o \in CliOutcomes :
        /\ played' = <<o>>
        /\ result' = o.result
        /\ pc' = IF o.aborted THEN "menu" ELSE "record"
    /\ UNCHANGED <<matchVars, data, file, player_name, opponent_rating>>

\* play_match_cli lines 334-335: the opponent's rating is looked up, the
\* result is recorded and saved.
RecordMatch ==
    /\ pc = "record"
    /\ opponent_rating' =
            IF played[1].opponent \in DictKeys(data)
            THEN PlayerOf(data, played[1].opponent).rating
            ELSE 1200
    /\ data' = UpdateMatch(data, player_name, played[1].opponent, result,
                           played[1].moves)
    /\ file' = SaveJson(data')
    /\ pc' = "rate"
    /\ UNCHANGED <<matchVars, result, player_name, played>>

\* play_match_cli line 336: the rating is updated and saved.
RateMatch ==
    /\ pc = "rate"
    /\ data' = UpdateRating(data, player_name, opponent_rating, ResultValue(result))
    /\ file' = SaveJson(data')
    /\ pc' = "achieve"
    /\ UNCHANGED <<matchVars, result, player_name, played, opponent_rating>>

\* play_match_cli lines 338-351: the three achievements, each saved when it
\* is new.
AwardAchievements ==
    /\ pc = "achieve"
    /\ LET d0 == GetPlayer(data, player_name)
           p == PlayerOf(d0, player_name)
           first == result = "win" /\ p.wins = 1
           d1 == IF first THEN AddAchievement(d0, player_name, "First Win") ELSE d0
           n == Len(p.history)
           streak == n >= 3 /\ \A i \in (n - 2)..n : p.history[i].result = "win"
           d2 == IF streak THEN AddAchievement(d1, player_name, "Three win streak")
                 ELSE d1
           same == played[1].moves.len >= 3 /\ played[1].same_move
           d3 == IF same
                 THEN AddAchievement(d2, player_name, "Predictable Player (Cheater?)")
                 ELSE d2
           saved3 == same /\ Awards(d2, player_name, "Predictable Player (Cheater?)")
           saved2 == streak /\ Awards(d1, player_name, "Three win streak")
           saved1 == first /\ Awards(d0, player_name, "First Win")
       IN  /\ data' = d3
           /\ file' = IF saved3 THEN SaveJson(d3)
                      ELSE IF saved2 THEN SaveJson(d2)
                      ELSE IF saved1 THEN SaveJson(d1)
                      ELSE file
    /\ pc' = "menu"
    /\ UNCHANGED <<matchVars, result, player_name, played, opponent_rating>>

\* Menu 2: show_stats reads the record through get_player, which creates it.
MenuShowStats ==
    /\ pc = "menu"
    /\ data' = GetPlayer(data, player_name)
    /\ UNCHANGED <<matchVars, pc, result, file, player_name, played, opponent_rating>>

\* A reset that zeroes the counters and keeps history and achievements.
MenuResetStatsCountersOnly ==
    /\ pc = "menu"
    /\ data' = LET d1 == GetPlayer(data, player_name)
               IN  DictSet(d1, player_name,
                       [PlayerOf(d1, player_name) EXCEPT
                           !.wins = 0, !.losses = 0, !.ties = 0,
                           !.rating = 1200, !.total_games = 0])
    /\ file' = SaveJson(data')
    /\ UNCHANGED <<matchVars, pc, result, player_name, played, opponent_rating>>

\* Menu 5, confirmed with yes: the record is replaced by a fresh one and saved.
MenuResetStats ==
    /\ pc = "menu"
    /\ data' = DictSet(data, player_name, NewPlayer)
    /\ file' = SaveJson(data')
    /\ UNCHANGED <<matchVars, pc, result, player_name, played, opponent_rating>>

Next ==
    \/ MenuPlayMatch
    \/ RecordMatch
    \/ RateMatch
    \/ AwardAchievements
    \/ MenuShowStats
    \/ MenuResetStats

Spec == Init /\ [][Next]_vars

\* Menu 0 and the program run again: StatsManager() loads the statistics
\* file, a name is entered.
Relaunch ==
    /\ pc = "menu"
    /\ data' = LoadJson(file)
    /\ player_name' \in PlayerNames
    /\ played' = <<>>
    /\ result' = ""
    /\ UNCHANGED <<matchVars, pc, file, opponent_rating>>

NextPersist == Next \/ Relaunch

SpecPersist == Init /\ [][NextPersist]_vars

\* ------------------------------------------------------------------ claims

\* The moves of the last round played, when both are moves of the rule set.
LegalRound ==
    /\ ret # <<>>
    /\ ret[1].player_move \in Moves(match.rules)
    /\ ret[1].ai_move \in Moves(match.rules)

\* floor(rounds_target / 2) + 1
Threshold(m) == (m.rounds \div 2) + 1

ThresholdReached(m) ==
    m.scores.player >= Threshold(m) \/ m.scores.ai >= Threshold(m)

\* The match is in the hands of play_match_cli or of the GUI callback.
Driven == pc \in {"cli_loop", "cli_aborted", "cli_done", "gui_mainloop", "gui_quit"}

\* C1: for every pair of moves of the rule set a round was played with, the
\* resolver returned 0 for equal moves, 1 when the second move is in
\* winner_map of the first, -1 otherwise; rock against scissors is 1, rock
\* against paper is -1 and paper against paper is 0.
C1_DecideWinner ==
    LegalRound =>
        LET a == ret[1].player_move
            b == ret[1].ai_move
            res == ret[1].res
            winner_map == RULESETS[match.rules].winner_map
        IN  /\ (a = b) => res = 0
            /\ (a # b /\ b \in winner_map[a]) => res = 1
            /\ (a # b /\ b \notin winner_map[a]) => res = -1
            /\ (a = "rock" /\ b = "scissors") => res = 1
            /\ (a = "rock" /\ b = "paper") => res = -1
            /\ (a = "paper" /\ b = "paper") => res = 0

C1_Witness ==
    /\ LegalRound
    /\ match.rules = "RPSLS"
    /\ ret[1].player_move = "lizard"
    /\ ret[1].ai_move = "spock"
    /\ ret[1].res = 1

\* C2: for two distinct moves of the rule set, the round is a win for one
\* side and the round with the moves exchanged is a win for the other; no
\* move beats itself and no two moves beat each other.
C2_AntiSymmetric ==
    LET winner_map == RULESETS[match.rules].winner_map
    IN  /\ \A m \in Moves(match.rules) : m \notin winner_map[m]
        /\ \A a, b \in Moves(match.rules) :
                b \in winner_map[a] => a \notin winner_map[b]
        /\ (LegalRound /\ ret[1].player_move # ret[1].ai_move) =>
                /\ ret[1].res \in {1, -1}
                /\ DecideWinner(ret[1].ai_move, ret[1].player_move, winner_map)
                        = 0 - ret[1].res

C2_Witness ==
    /\ LegalRound
    /\ match.rules = "RPSLS"
    /\ ret[1].player_move = "spock"
    /\ ret[1].ai_move = "lizard"
    /\ ret[1].res = -1

\* The first two rounds of the match were won by the human.
FirstTwoWon(m) ==
    /\ Len(m.move_history) >= 2
    /\ \A i \in 1..2 :
        DecideWinner(m.move_history[i][1], m.move_history[i][2],
                     RULESETS[m.rules].winner_map) = 1

\* C3: is_over() is true exactly when a score has reached floor(rounds/2)+1;
\* a match in the hands of a driver plays no round once that holds; a best
\* of 3 whose first two rounds the human won stands at 2-0 after two rounds.
C3_IsOverEndsMatch ==
    /\ [](IsOver(match) <=> ThresholdReached(match))
    /\ [][(Driven /\ ThresholdReached(match)) => (match' = match /\ ai' = ai)]_vars
    /\ []((Driven /\ match.rounds = 3 /\ FirstTwoWon(match)) =>
            /\ Len(match.move_history) = 2
            /\ match.scores = [player |-> 2, ai |-> 0, ties |-> 0])

C3_Witness ==
    /\ pc = "cli_done"
    /\ match.rounds = 3
    /\ match.scores = [player |-> 2, ai |-> 0, ties |-> 0]
    /\ Len(match.move_history) = 2

\* C4: once a score has reached the threshold, no step changes the match or
\* the opponent strategy.
C4_OverIsFrozen ==
    [][ThresholdReached(match) => (match' = match /\ ai' = ai)]_vars

\* C5: the three scores add up to the number of rounds in the history, and
\* every step that changes the match is one round: one record (human move,
\* opponent move) appended, one counter incremented, the one of the resolved
\* outcome, and the human move observed by the opponent strategy.
C5_OneRoundOneCount ==
    /\ [](match.scores.player + match.scores.ai + match.scores.ties
            = Len(match.move_history))
    /\ [][match' # match =>
            LET r == ret'[1]
                s == match.scores
            IN  /\ r.res = DecideWinner(r.player_move, r.ai_move,
                                        RULESETS[match.rules].winner_map)
                /\ match'.move_history
                        = Append(match.move_history, <<r.player_move, r.ai_move>>)
                /\ r.res = 1 =>
                        match'.scores = [player |-> s.player + 1, ai |-> s.ai,
                                         ties |-> s.ties]
                /\ r.res = -1 =>
                        match'.scores = [player |-> s.player, ai |-> s.ai + 1,
                                         ties |-> s.ties]
                /\ r.res = 0 =>
                        match'.scores = [player |-> s.player, ai |-> s.ai,
                                         ties |-> s.ties + 1]
                /\ [match' EXCEPT !.scores = s, !.move_history = match.move_history]
                        = match
                /\ ai.name = "FrequencyAI" =>
                        CounterGet(ai'.freq, r.player_move)
                            = CounterGet(ai.freq, r.player_move) + 1
                /\ ai.name = "MarkovAI" =>
                        /\ ai'.prev = <<r.player_move>>
                        /\ CounterGet(ai'.player_freq, r.player_move)
                            = CounterGet(ai.player_freq, r.player_move) + 1]_vars

C5_Witness ==
    /\ pc = "cli_loop"
    /\ ai.name = "MarkovAI"
    /\ Len(match.move_history) = 2
    /\ match.scores = [player |-> 1, ai |-> 0, ties |-> 1]

\* C6: when play_match_cli's loop has ended, one of the two scores equals
\* the threshold and the other is smaller, and the result is win or loss.
C6_DeterminateWinner ==
    pc = "cli_done" =>
        /\ match.rounds % 2 = 1
        /\ \/ /\ match.scores.player = Threshold(match)
              /\ match.scores.ai < Threshold(match)
              /\ result = "win"
           \/ /\ match.scores.ai = Threshold(match)
              /\ match.scores.player < Threshold(match)
              /\ result = "loss"

C6_Witness ==
    /\ pc = "cli_done"
    /\ result = "loss"
    /\ match.scores.ties = 1

\* The last call was a choose_move.
Chose == ret # <<>> /\ ret[1].op = "choose_move"

\* Every move observed since the last reset is a move of the rule set.
ObservedLegal == \A i \in 1..Len(observed) : observed[i] \in Moves(ai.rules)

\* How often move m occurs in the sequence h.
Occurrences(h, m) == Cardinality({i \in 1..Len(h) : h[i] = m})

\* The moves that occur most often in h.
MostFrequent(h) ==
    {m \in Range(h) : \A k \in Range(h) : Occurrences(h, k) <= Occurrences(h, m)}

\* The moves of the rule set that win a round against move p.
Beaters(ruleset_key, p) ==
    {m \in Moves(ruleset_key) :
        DecideWinner(m, p, RULESETS[ruleset_key].winner_map) = 1}

\* C7: whatever was observed, also strings that are no move of the rule set,
\* choose_move of each strategy can return a move, and only moves of the
\* strategy's own rule set.
C7_LegalChoice ==
    /\ ChooseMove(ai) # {}
    /\ ChooseMove(ai) \subseteq Moves(ai.rules)
    /\ Chose => ret[1].value \in Moves(ai.rules)

C7_Witness ==
    /\ Chose
    /\ ai.name = "MarkovAI"
    /\ ai.rules = "RPS"
    /\ observed = <<"spock", "", "spock">>

\* C8: FrequencyAI with nothing observed since the last reset can return
\* each move of the rule set; with moves of the rule set observed it can
\* return exactly the moves that beat a most frequent one of them; after
\* rock, rock, rock under RPS that is paper alone.
C8_FrequencyCounters ==
    (ai.name = "FrequencyAI" /\ ObservedLegal) =>
        /\ observed = <<>> => ChooseMove(ai) = Moves(ai.rules)
        /\ observed # <<>> =>
                \E p \in MostFrequent(observed) :
                    /\ ChooseMove(ai) = Beaters(ai.rules, p)
                    /\ Beaters(ai.rules, p) # {}
                    /\ Chose => ret[1].value \in Beaters(ai.rules, p)
        /\ (observed = <<"rock", "rock", "rock">> /\ ai.rules = "RPS") =>
                /\ ChooseMove(ai) = {"paper"}
                /\ Chose => ret[1].value = "paper"

C8_Witness ==
    /\ ai.name = "FrequencyAI"
    /\ ai.rules = "RPS"
    /\ observed = <<"rock", "rock", "rock">>
    /\ Chose
    /\ ret[1].value = "paper"

\* The positions of h before the last whose move is the last move of h.
EarlierOccurrences(h) == {i \in 1..(Len(h) - 1) : h[i] = h[Len(h)]}

\* How often move m follows an earlier occurrence of the last move of h.
Successions(h, m) == Cardinality({i \in EarlierOccurrences(h) : h[i + 1] = m})

\* The most common successors of the last move of h.
MostCommonSuccessors(h) ==
    {m \in {h[i + 1] : i \in EarlierOccurrences(h)} :
        \A k \in Range(h) : Successions(h, k) <= Successions(h, m)}

C10_CountsAddUp ==
    /\ [](\A i \in 1..Len(data) :
            LET p == data[i][2]
            IN  /\ p.wins + p.losses + p.ties = p.total_games
                /\ p.total_games = Len(p.history))
    /\ [][pc = "record" =>
            LET old == PlayerOf(GetPlayer(data, player_name), player_name)
                new == PlayerOf(data', player_name)
            IN  /\ new.total_games = old.total_games + 1
                /\ <<new.wins, new.losses, new.ties>> \in
                        {<<old.wins + 1, old.losses, old.ties>>,
                         <<old.wins, old.losses + 1, old.ties>>,
                         <<old.wins, old.losses, old.ties + 1>>}
                /\ result = "win" => new.wins = old.wins + 1
                /\ result = "loss" => new.losses = old.losses + 1
                /\ Len(new.history) = Len(old.history) + 1
                /\ SubSeq(new.history, 1, Len(old.history)) = old.history
                /\ new.history[Len(new.history)].opponent = played[1].opponent
                /\ new.history[Len(new.history)].result = result]_vars

C10_Witness ==
    /\ pc = "rate"
    /\ player_name \in DictKeys(data)
    /\ PlayerOf(data, player_name).wins = 1
    /\ PlayerOf(data, player_name).losses = 1
    /\ PlayerOf(data, player_name).total_games = 2
    /\ Len(PlayerOf(data, player_name).history) = 2

\* The rating a record of name has when every match of history h has had
\* its rating update, from the rating R of a new record: the opponent's
\* rating is the player's own when the player goes by the opponent's name,
\* and 1200 otherwise.
RECURSIVE RatedThrough(_, _, _)
RatedThrough(h, name, R) ==
    IF h = <<>> THEN R
    ELSE RatedThrough(Tail(h), name,
            NewRating(R, IF Head(h).opponent = name THEN R ELSE 1200,
                      ResultValue(Head(h).result)))

\* C11: every saved state of the statistics store holds, for every record,
\* the results of its matches together with their rating updates: the saved
\* rating is the rating after the update of every match of the saved history,
\* and the saved counters count the saved history.
C11_RecordedWithRating ==
    file # <<>> =>
        \A i \in 1..Len(file[1]) :
            LET p == file[1][i][2]
            IN  /\ p.total_games = Len(p.history)
                /\ p.rating = RatedThrough(p.history, file[1][i][1], 1200)

\* C12: add_achievement called again with an id leaves the store as the
\* first call left it, a call with an id the record holds changes nothing,
\* and no record holds an achievement id twice.
C12_AwardIdempotent ==
    /\ \A a \in Achievements :
        LET once == AddAchievement(data, player_name, a)
        IN  /\ AddAchievement(once, player_name, a) = once
            /\ a \in Range(PlayerOf(once, player_name).achievements)
            /\ ~Awards(once, player_name, a)
    /\ \A i \in 1..Len(data) :
        LET achievements == data[i][2].achievements
        IN  \A j, k \in 1..Len(achievements) :
                achievements[j] = achievements[k] => j = k

\* The first match (lost, one move throughout its three rounds) earned
\* "Predictable Player (Cheater?)"; the second (won, again one move
\* throughout) earned "First Win" and asked for the first id again.
C12_Witness ==
    /\ pc = "menu"
    /\ player_name \in DictKeys(data)
    /\ played # <<>>
    /\ ~played[1].aborted
    /\ played[1].same_move
    /\ played[1].moves.len >= 3
    /\ result = "win"
    /\ Len(PlayerOf(data, player_name).history) = 2
    /\ PlayerOf(data, player_name).achievements =
            <<"Predictable Player (Cheater?)", "First Win">>

\* C13: a match the human quits, before any round or after any number of
\* rounds, leaves the store and the saved file as they were when the match
\* started and returns to the menu; nothing is recorded, rated or awarded
\* for a match that was quit.
C13_AbortLeavesStats ==
    /\ [][(pc = "menu" /\ played' # played /\ played'[1].aborted) =>
            (data' = data /\ file' = file /\ pc' = "menu")]_vars
    /\ [](pc \in {"record", "rate", "achieve"} => ~played[1].aborted)

\* Back at the menu from a match quit after its second round, with one
\* earlier match in the store and in the file.
C13_Witness ==
    /\ pc = "menu"
    /\ played # <<>>
    /\ played[1].aborted
    /\ played[1].moves.len = 2
    /\ HistoryLen(data, player_name) = 1
    /\ file = SaveJson(data)
    /\ PlayerOf(data, player_name).total_games = 1

\* C14: a play_round given a human move that is no move of the rule set
\* fails: it returns no round outcome, changes no score and records no round.
C14_InvalidMoveRejected ==
    [][(/\ Len(observed') = Len(observed) + 1
        /\ observed'[Len(observed')] \notin Moves(match.rules)) =>
            (/\ match'.scores = match.scores
             /\ match'.move_history = match.move_history
             /\ ret' = ret)]_vars

\* The rating update_rating leaves, from the record's rating and opponent
\* rating opp, for result value rv (in tenths).
RatingAfter(opp, rv) ==
    PlayerOf(UpdateRating(data, player_name, opp, rv), player_name).rating

\* C15: for every rating of the record and every opponent rating, the rating
\* update_rating leaves for result value 1.0 is at least the one it leaves
\* for 0.5, which is at least the one it leaves for 0.0; and the rating a
\* call left is at least (1.0), at most (0.0) what the other values leave.
C15_MonotonicInResult ==
    /\ \A opp \in Ratings \cup {opponent_rating} :
        /\ RatingAfter(opp, 10) >= RatingAfter(opp, 5)
        /\ RatingAfter(opp, 5) >= RatingAfter(opp, 0)
    /\ ret # <<>> =>
        LET new == PlayerOf(data, player_name).rating
            others == {NewRating(ret[1].R, ret[1].opponent_rating, rv) :
                            rv \in {0, 5, 10}}
        IN  /\ ret[1].result_value = 10 => \A r \in others : new >= r
            /\ ret[1].result_value = 0 => \A r \in others : new <= r
            /\ ret[1].result_value = 5 =>
                    (\E r \in others : new >= r) /\ (\E r \in others : new <= r)

\* A win from 1200 against 1600 left 1218, where a tie leaves 1208 and a
\* loss 1198.
C15_Witness ==
    /\ ret # <<>>
    /\ ret[1].R = 1200
    /\ ret[1].opponent_rating = 1600
    /\ ret[1].result_value = 10
    /\ PlayerOf(data, player_name).rating = 1218
    /\ NewRating(1200, 1600, 5) = 1208
    /\ NewRating(1200, 1600, 0) = 1198

\* C16: with K = 20, at 1200 against 1200 the expected score is 0.5 (K * E
\* is K / 2) and update_rating with result value 1.0 leaves the rating 1210.
C16_EvenWin ==
    /\ ELO_K = 20
    /\ 2 * ExpectedTimesK(1200 - 1200) = ELO_K
    /\ (/\ ret # <<>>
        /\ ret[1].R = 1200
        /\ ret[1].opponent_rating = 1200
        /\ ret[1].result_value = 10) =>
            PlayerOf(data, player_name).rating = 1210

C16_Witness ==
    /\ ret # <<>>
    /\ ret[1].calls = 1
    /\ ret[1].R = 1200
    /\ ret[1].opponent_rating = 1200
    /\ ret[1].result_value = 10
    /\ PlayerOf(data, player_name).rating = 1210
    /\ file = SaveJson(data)

\* C17: the achievement step of a completed match adds "First Win" exactly
\* when the match was won and the record then counts one win; and whenever
\* the program is at its menu (after any completed matches, quit matches,
\* shown statistics and resets, from no statistics file), the player's record
\* holds "First Win" if and only if its wins are at least 1.
C17_FirstWin ==
    /\ [][pc = "achieve" =>
            LET old == PlayerOf(data, player_name)
                new == PlayerOf(data', player_name)
            IN  "First Win" \in Range(new.achievements) <=>
                    \/ "First Win" \in Range(old.achievements)
                    \/ (result = "win" /\ old.wins = 1)]_vars
    /\ []((pc = "menu" /\ player_name \in DictKeys(data)) =>
            LET p == PlayerOf(data, player_name)
            IN  "First Win" \in Range(p.achievements) <=> p.wins >= 1)

\* At the menu after a lost and then a won match: one win, and "First Win".
C17_Witness ==
    /\ pc = "menu"
    /\ player_name \in DictKeys(data)
    /\ PlayerOf(data, player_name).wins = 1
    /\ PlayerOf(data, player_name).losses = 1
    /\ Len(PlayerOf(data, player_name).history) = 2
    /\ PlayerOf(data, player_name).history[2].result = "win"
    /\ "First Win" \in Range(PlayerOf(data, player_name).achievements)

\* C18: every store the program reaches is, saved and loaded again, equal to
\* the store that was saved (histories with their rounds' move pairs
\* included), and what is loaded from the file is, saved and loaded again,
\* what was loaded.
C18_RoundTrip ==
    /\ LoadJson(SaveJson(data)) = data
    /\ LoadJson(SaveJson(LoadJson(file))) = LoadJson(file)

\* The position at which move m was first observed in h.
FirstSeen(h, m) == CHOOSE i \in 1..Len(h) : h[i] = m /\ \A j \in 1..(i - 1) : h[j] # m

\* The position of the first earlier occurrence of the last move of h that
\* move m follows: when m entered the successor counts of that move.
FirstFollowed(h, m) ==
    CHOOSE i \in EarlierOccurrences(h) :
        h[i + 1] = m /\ \A j \in EarlierOccurrences(h) : j < i => h[j + 1] # m

\* MarkovAI predicts from the successor counts of the previous move.
UsesSuccessors == Truthy(ai.prev) /\ EarlierOccurrences(observed) # {}

\* C19: whatever strings were observed since the last reset, the move
\* predicted by FrequencyAI, and by MarkovAI from the overall counts, is the
\* one of the most frequent moves that was observed first; the move MarkovAI
\* predicts from the successor counts of the previous move is the one of its
\* most common successors that followed it first; and choose_move returns a
\* move that beats that prediction when a move of the rule set does.
C19_FirstInsertedWins ==
    /\ (ai.name = "FrequencyAI" /\ observed # <<>>) =>
        LET predicted == MostCommon1(ai.freq)
        IN  /\ predicted \in MostFrequent(observed)
            /\ \A m \in MostFrequent(observed) :
                    FirstSeen(observed, predicted) <= FirstSeen(observed, m)
            /\ (Chose /\ Beaters(ai.rules, predicted) # {}) =>
                    ret[1].value \in Beaters(ai.rules, predicted)
    /\ (ai.name = "MarkovAI" /\ observed # <<>>) =>
        /\ PredictNext(ai) # <<>>
        /\ LET predicted == PredictNext(ai)[1]
           IN  /\ UsesSuccessors =>
                    /\ predicted \in MostCommonSuccessors(observed)
                    /\ \A m \in MostCommonSuccessors(observed) :
                            FirstFollowed(observed, predicted)
                                <= FirstFollowed(observed, m)
               /\ ~UsesSuccessors =>
                    /\ predicted \in MostFrequent(observed)
                    /\ \A m \in MostFrequent(observed) :
                            FirstSeen(observed, predicted) <= FirstSeen(observed, m)
               /\ (Chose /\ Beaters(ai.rules, predicted) # {}) =>
                    ret[1].value \in Beaters(ai.rules, predicted)

\* After rock, scissors, rock, rock the successors of rock are scissors and
\* rock, once each: scissors followed first, and rock beats it.
C19_Witness ==
    /\ ai.name = "MarkovAI"
    /\ ai.rules = "RPS"
    /\ observed = <<"rock", "scissors", "rock", "rock">>
    /\ MostCommonSuccessors(observed) = {"rock", "scissors"}
    /\ PredictNext(ai) = <<"scissors">>
    /\ Chose
    /\ ret[1].value = "rock"

\* A round in which the human plays x and the opponent y.
RoundWith(x, y) ==
    CliRoundOf(x, y) \/ GuiPlayMoveOf(x, y) \/ CallPlayRoundOf(x, y)

\* The moves the opponent can play in the round the human plays x in.
OpponentMoves(x) == {y \in Moves(match.rules) : ENABLED RoundWith(x, y)}

\* C20: in every state of a match, the moves the opponent can play in the
\* coming round are the same for every move the human can play in it: they
\* are what choose_move can return before the human's move is observed.
C20_OpponentBlind ==
    {OpponentMoves(x) : x \in CallerMoves(match.rules)} \subseteq {{}, ChooseMove(ai)}

\* FrequencyAI lost the first round with scissors against rock, a move it
\* chose without seeing rock; having observed rock it plays paper in the
\* second round, whatever the human plays.
C20_Witness ==
    /\ pc = "cli_loop"
    /\ ai.name = "FrequencyAI"
    /\ match.rules = "RPS"
    /\ match.rounds = 3
    /\ observed = <<"rock">>
    /\ ret[1].ai_move = "scissors"
    /\ \A x \in Moves("RPS") : OpponentMoves(x) = {"paper"}

====
